---- MODULE Spec2Model ----
(***************************************************************************)
(* The chromem-go vector store adapter of langchaingo                      *)
(* (package vectorstores/chromem): Store construction from client options, *)
(* Store.AddDocuments and Store.SimilaritySearch, with the per-call option *)
(* resolution and validation they share.                                   *)
(*                                                                         *)
(* The embedding service and the chromem-go engine are collaborators       *)
(* outside the package.  They are modelled by their contracts; whether a   *)
(* call to them fails, and the similarity the engine reports for a stored  *)
(* document, are nondeterministic inputs of the actions.                   *)
(*                                                                         *)
(* float32 scores and thresholds are counted in tenths: 10 stands for 1.0, *)
(* -5 for -0.5.  A cosine similarity lies in [-1, 1].                      *)
(***************************************************************************)
EXTENDS Integers, Sequences, FiniteSets, TLC

VARIABLES
    store,   \* the *Store held by the caller (nil before New and after a failed New)
    db,      \* the chromem-go DB behind store.db, with its collections
    nextID,  \* the number of the next identifier uuid.NewString() hands out
    ret,     \* the last call: its arguments, what it returned, the calls it made
    added    \* history: by ID, each document the engine accepted and its namespace

vars == <<store, db, nextID, ret, added>>

----------------------------------------------------------------------------
(* Bounds of the exploration *)

\* longest document batch handed to AddDocuments
MaxBatch == 2
\* longest list of per-call options
MaxOptions == 2
\* longest list of construction options handed to New
MaxClientOptions == 3
\* identifiers generated over a run
MaxIDs == 2
\* largest numDocuments asked of SimilaritySearch
MaxNumDocuments == 2

----------------------------------------------------------------------------
(* Go values *)

\* a nil error
NoError == "nil"

\* map[string]T: nil, or a function from the keys present to their values
NilMap == [nil |-> TRUE, kv |-> [k \in {} |-> ""]]
MakeMap(f) == [nil |-> FALSE, kv |-> f]
MapLen(m) == Cardinality(DOMAIN m.kv)

\* an `any` holding a string, and one holding an int
AnyString(s) == [type |-> "string", v |-> s]
AnyInt(s) == [type |-> "int", v |-> s]

\* []T: nil, or a sequence
NilSlice == [nil |-> TRUE, s |-> <<>>]
MakeSlice(q) == [nil |-> FALSE, s |-> q]
\* append(sl, x): a nil slice becomes a non-nil one
AppendSlice(sl, x) == [nil |-> FALSE, s |-> Append(sl.s, x)]

\* the Filters field of vectorstores.Options is an `any`
NilFilters == [type |-> "nil", m |-> NilMap]
StringMapFilters(f) == [type |-> "map[string]string", m |-> MakeMap(f)]
\* (a map[string]any is told from a map[string]string by its type alone)
AnyMapFilters(f) == [type |-> "map[string]any", m |-> MakeMap(f)]

\* the identifier uuid.NewString() returns on its n-th call
NewString(n) == n

\* 1.0 in tenths: the upper end of the score threshold range
MaxScoreThreshold == 10

----------------------------------------------------------------------------
(* vectorstores.Options and the per-call options *)

Options(ns) ==
    [NameSpace |-> ns, ScoreThreshold |-> 0, Filters |-> NilFilters,
     Embedder |-> "nil", Deduplicater |-> "nil"]

Option(kind, ns, t, f) == [opt |-> kind, ns |-> ns, t |-> t, f |-> f]
WithNameSpace(ns) == Option("WithNameSpace", ns, 0, NilFilters)
WithScoreThreshold(t) == Option("WithScoreThreshold", "", t, NilFilters)
WithFilters(f) == Option("WithFilters", "", 0, f)
WithEmbedderOverride == Option("WithEmbedder", "", 0, NilFilters)
WithDeduplicater == Option("WithDeduplicater", "", 0, NilFilters)

\* opt(&res): what one option does to the options it is applied to
ApplyOption(o, res) ==
    CASE o.opt = "WithNameSpace" -> [res EXCEPT !.NameSpace = o.ns]
      [] o.opt = "WithScoreThreshold" -> [res EXCEPT !.ScoreThreshold = o.t]
      [] o.opt = "WithFilters" -> [res EXCEPT !.Filters = o.f]
      [] o.opt = "WithEmbedder" -> [res EXCEPT !.Embedder = "override"]
      [] o.opt = "WithDeduplicater" -> [res EXCEPT !.Deduplicater = "fn"]

\* getOptions with the first option for a field winning instead of the last
RECURSIVE getOptionsFirstWins(_, _)
getOptionsFirstWins(defaults, opts) ==
    IF opts = <<>> THEN defaults
    ELSE ApplyOption(Head(opts), getOptionsFirstWins(defaults, Tail(opts)))

RECURSIVE getOptions(_, _)
getOptions(defaults, opts) ==
    IF opts = <<>> THEN defaults
    ELSE getOptions(ApplyOption(Head(opts), defaults), Tail(opts))

\* validateOptions without the range check on the score threshold
validateOptionsNoRange(opts) ==
    IF opts.Deduplicater # "nil" \/ opts.Embedder # "nil" THEN "unsupported options"
    ELSE IF opts.NameSpace = "" THEN "namespace is empty"
    ELSE IF opts.Filters.type # "nil" /\ opts.Filters.type # "map[string]string"
        THEN "filters must be of type map[string]string"
    ELSE NoError

validateOptions(opts) ==
    IF opts.Deduplicater # "nil" \/ opts.Embedder # "nil" THEN "unsupported options"
    ELSE IF opts.NameSpace = "" THEN "namespace is empty"
    ELSE IF opts.ScoreThreshold < 0 \/ opts.ScoreThreshold > MaxScoreThreshold
        THEN "score threshold must be between 0 and 1"
    ELSE IF opts.Filters.type # "nil" /\ opts.Filters.type # "map[string]string"
        THEN "filters must be of type map[string]string"
    ELSE NoError

\* fmt.Errorf("<msg>: %w", err)
Wrap(msg, err) == msg \o ": " \o err

----------------------------------------------------------------------------
(* The collaborators: the embedder and the chromem-go engine *)

\* the error a collaborator returns when it fails
CollaboratorError == "collaborator failed"

\* chromemgo.Document, as handed to Collection.AddDocument
Document(id, metadata, embedding, content) ==
    [ID |-> id, Metadata |-> metadata, Embedding |-> embedding, Content |-> content]
NoDocument == Document(0, NilMap, "", "")

\* the vector the embedder returns for a text
Embedding(text) == "vector of " \o text

\* one call made to a collaborator: which, on what, with what, and whether it
\* returned without an error
Call(fn, name, flag, doc, ok) ==
    [fn |-> fn, name |-> name, flag |-> flag, doc |-> doc, ok |-> ok]

\* a DB: how it was created, and its collections by name.  A collection maps
\* the IDs of its documents to the documents.
NoDB == [created |-> "none", path |-> "", compress |-> FALSE,
         collections |-> [n \in {} |-> [i \in {} |-> NoDocument]]]

\* chromemgo.NewDB()
NewDB == [NoDB EXCEPT !.created = "NewDB"]

\* chromemgo.NewPersistentDB(path, compress): an empty path stands for the
\* engine's own default directory
NewPersistentDB(path, compress) ==
    [NoDB EXCEPT !.created = "NewPersistentDB",
                 !.path = IF path = "" THEN "./chromem-go" ELSE path,
                 !.compress = compress]

\* DB.GetCollection(name, ef) # nil
HasCollection(d, name) == name \in DOMAIN d.collections

\* DB.GetOrCreateCollection(name, nil, ef): the DB afterwards
GetOrCreateCollection(d, name) ==
    IF HasCollection(d, name) THEN d
    ELSE [d EXCEPT !.collections = d.collections @@ (name :> [i \in {} |-> NoDocument])]

\* Collection.AddDocument(ctx, doc): the collection afterwards
AddDocument(c, doc) == [i \in DOMAIN c \cup {doc.ID} |-> IF i = doc.ID THEN doc ELSE c[i]]

----------------------------------------------------------------------------
(* Store construction: options.go and New *)

defaultPersistPath == "./langchaingo"
defaultCompress == FALSE

\* a nil *Store
NilStore ==
    [nil |-> TRUE, persistent |-> FALSE, persistPath |-> "", compress |-> FALSE,
     defaultCollectionName |-> "", embedder |-> "nil"]

ClientOption(kind, path, compress, ns, embedder) ==
    [opt |-> kind, path |-> path, compress |-> compress, ns |-> ns, embedder |-> embedder]
WithPersistence(path, compress) == ClientOption("WithPersistence", path, compress, "", "nil")
WithDefaultNamespace(defaultNamespace) ==
    ClientOption("WithDefaultNamespace", "", FALSE, defaultNamespace, "nil")
WithEmbedder(embedder) == ClientOption("WithEmbedder", "", FALSE, "", embedder)

\* opt(s): what one construction option does to the store
ApplyClientOption(o, s) ==
    CASE o.opt = "WithPersistence" ->
            [s EXCEPT !.persistent = TRUE, !.persistPath = o.path, !.compress = o.compress]
      [] o.opt = "WithDefaultNamespace" -> [s EXCEPT !.defaultCollectionName = o.ns]
      [] o.opt = "WithEmbedder" -> [s EXCEPT !.embedder = o.embedder]

RECURSIVE ApplyClientOptionList(_, _)
ApplyClientOptionList(s, opts) ==
    IF opts = <<>> THEN s
    ELSE ApplyClientOptionList(ApplyClientOption(Head(opts), s), Tail(opts))

\* applyClientOptions without the check that an embedder was set
applyClientOptionsUnchecked(opts) ==
    [s |-> ApplyClientOptionList(
               [NilStore EXCEPT !.nil = FALSE, !.persistPath = defaultPersistPath,
                                !.compress = defaultCompress], opts),
     err |-> NoError]

applyClientOptions(opts) ==
    LET s == ApplyClientOptionList(
                 [NilStore EXCEPT !.nil = FALSE, !.persistPath = defaultPersistPath,
                                  !.compress = defaultCompress], opts)
    IN  IF s.embedder = "nil"
        THEN [s |-> NilStore, err |-> "embedder is required"]
        ELSE [s |-> s, err |-> NoError]

\* New(opts...): the store and the error it returns, the DB it creates and the
\* calls it makes.  openFails: whether NewPersistentDB returns an error.
New(opts, openFails) ==
    LET r == applyClientOptions(opts)
        s == r.s
    IN  IF r.err # NoError
        THEN [s |-> s, err |-> r.err, db |-> NoDB, calls |-> <<>>]
        ELSE IF s.persistent
        THEN IF openFails
             THEN [s |-> NilStore,
                   err |-> Wrap("couldn't create persistent DB", CollaboratorError),
                   db |-> NoDB,
                   calls |-> <<Call("NewPersistentDB", s.persistPath, s.compress,
                                    NoDocument, FALSE)>>]
             ELSE [s |-> s, err |-> NoError,
                   db |-> NewPersistentDB(s.persistPath, s.compress),
                   calls |-> <<Call("NewPersistentDB", s.persistPath, s.compress,
                                    NoDocument, TRUE)>>]
        ELSE [s |-> s, err |-> NoError, db |-> NewDB,
              calls |-> <<Call("NewDB", "", FALSE, NoDocument, TRUE)>>]

\* what ret holds of a call: the arguments, the error and the IDs or documents
\* returned, the results the engine's query gave (found), the calls made
Return(op, clientOptions, options, docs, query, numDocuments, err, ids, res, calls) ==
    [op |-> op, clientOptions |-> clientOptions, options |-> options, docs |-> docs,
     query |-> query, numDocuments |-> numDocuments, err |-> err, ids |-> ids,
     res |-> res, found |-> <<>>, calls |-> calls]

NoCall == Return("none", <<>>, <<>>, <<>>, "", 0, NoError, NilSlice, NilSlice, <<>>)

\* the history of a store that was just created
NoneAdded == [i \in {} |-> [doc |-> <<>>, NameSpace |-> ""]]

\* the caller runs New and keeps what it returns
NewStore(opts, openFails) ==
    LET r == New(opts, openFails)
    IN  /\ store' = r.s
        /\ db' = r.db
        /\ nextID' = 1
        /\ added' = NoneAdded
        /\ ret' = Return("New", opts, <<>>, <<>>, "", 0, r.err, NilSlice, NilSlice, r.calls)

----------------------------------------------------------------------------
(* Store.AddDocuments *)

\* schema.Document
SchemaDocument(content, metadata, score) ==
    [PageContent |-> content, Metadata |-> metadata, Score |-> score]

\* the name of the collection a call works on
CollectionNameDefault(s, opts) == s.defaultCollectionName

CollectionName(s, opts) == opts.NameSpace

\* the metadata conversion with values of other types converted, not refused
stringMetadataConvert(md) ==
    IF MapLen(md) > 0
    THEN [ok |-> TRUE, metadata |-> MakeMap([k \in DOMAIN md.kv |-> md.kv[k].v])]
    ELSE [ok |-> TRUE, metadata |-> NilMap]

\* the conversion of a document's metadata to the engine's map[string]string:
\* ok is FALSE when a value is not a string
stringMetadata(md) ==
    IF MapLen(md) > 0
    THEN IF \E k \in DOMAIN md.kv : md.kv[k].type # "string"
         THEN [ok |-> FALSE, metadata |-> NilMap]
         ELSE [ok |-> TRUE, metadata |-> MakeMap([k \in DOMAIN md.kv |-> md.kv[k].v])]
    ELSE [ok |-> TRUE, metadata |-> NilMap]

\* the identifier generated once, before the loop
DocumentIDOnce(first, i) == NewString(first)

\* id := uuid.NewString() in the i-th pass of the loop of a call whose first
\* identifier is the first-th that uuid hands out
DocumentID(first, i) == NewString(first + i - 1)

\* a fault injected into a call: the collaborator call that returns an error
Fault(at, i) == [at |-> at, i |-> i]
NoFault == Fault("none", 0)

\* the loop over the documents, from the i-th on: the error and IDs returned,
\* the collection afterwards, the calls made, the identifiers generated
RECURSIVE AddLoop(_, _, _, _, _, _, _, _)
AddLoop(c, docs, embeddings, fault, first, i, ids, calls) ==
    IF i > Len(docs)
    THEN [err |-> NoError, ids |-> ids, c |-> c, calls |-> calls, generated |-> Len(docs)]
    ELSE
    LET id == DocumentID(first, i)
        md == stringMetadata(docs[i].Metadata)
        doc == Document(id, md.metadata, embeddings[i], docs[i].PageContent)
        failed == fault = Fault("AddDocument", i)
        called == Append(calls, Call("AddDocument", "", FALSE, doc, ~failed))
    IN  IF ~md.ok
        THEN [err |-> "only string values are supported in the metadata map",
              ids |-> NilSlice, c |-> c, calls |-> calls, generated |-> i]
        ELSE IF failed
        THEN [err |-> Wrap("couldn't add document", CollaboratorError),
              ids |-> NilSlice, c |-> c, calls |-> called, generated |-> i]
        ELSE AddLoop(AddDocument(c, doc), docs, embeddings, fault, first, i + 1,
                     AppendSlice(ids, id), called)

\* the history after a call on docs that made the calls `calls`: the i-th call of
\* AddDocument carries the i-th document, and the engine keeps it unless it fails
Accepted(before, docs, name, calls) ==
    LET adds == SelectSeq(calls, LAMBDA c : c.fn = "AddDocument")
        kept == {i \in 1..Len(adds) : adds[i].ok}
    IN  [id \in DOMAIN before \cup {adds[i].doc.ID : i \in kept} |->
            IF \E i \in kept : adds[i].doc.ID = id
            THEN [doc |-> docs[CHOOSE i \in kept :
                                  adds[i].doc.ID = id
                                  /\ \A j \in kept : adds[j].doc.ID = id => j <= i],
                  NameSpace |-> name]
            ELSE before[id]]

AddDocuments(docs, options, fault) ==
    LET opts == getOptions(Options(store.defaultCollectionName), options)
        verr == validateOptions(opts)
        name == CollectionName(store, opts)
        goc == Call("GetOrCreateCollection", name, FALSE, NoDocument,
                    fault.at # "GetOrCreateCollection")
        created == GetOrCreateCollection(db, name)
        embed == Call("EmbedDocuments", "", FALSE, NoDocument, fault.at # "EmbedDocuments")
        embeddings == [i \in 1..Len(docs) |-> Embedding(docs[i].PageContent)]
        loop == AddLoop(created.collections[name], docs, embeddings, fault, nextID, 1,
                        MakeSlice(<<>>), <<goc, embed>>)
        Returns(err, ids, calls) ==
            ret' = Return("AddDocuments", <<>>, options, docs, "", 0, err, ids, NilSlice, calls)
    IN  /\ ~store.nil
        /\ nextID + Len(docs) - 1 <= MaxIDs
        /\ store' = store
        /\ IF verr # NoError
           THEN /\ Returns(Wrap("invalid options", verr), NilSlice, <<>>)
                /\ UNCHANGED <<db, nextID, added>>
           ELSE IF ~goc.ok
           THEN /\ Returns(Wrap("couldn't get or create collection", CollaboratorError),
                           NilSlice, <<goc>>)
                /\ UNCHANGED <<db, nextID, added>>
           ELSE IF ~embed.ok
           THEN /\ Returns(Wrap("couldn't embed documents", CollaboratorError),
                           NilSlice, <<goc, embed>>)
                /\ db' = created
                /\ UNCHANGED <<nextID, added>>
           ELSE /\ Returns(loop.err, loop.ids, loop.calls)
                /\ db' = [created EXCEPT !.collections[name] = loop.c]
                /\ nextID' = nextID + loop.generated
                /\ added' = Accepted(added, docs, name, loop.calls)

----------------------------------------------------------------------------
(* Store.SimilaritySearch *)

\* chromemgo.Result
Result(doc, similarity) ==
    [ID |-> doc.ID, Metadata |-> doc.Metadata, Content |-> doc.Content,
     Similarity |-> similarity]

\* the engine's metadata filter: every entry of where is an entry of the document
Matches(doc, where) ==
    \A k \in DOMAIN where.kv :
        k \in DOMAIN doc.Metadata.kv /\ doc.Metadata.kv[k] = where.kv[k]

\* the documents with IDs in S, most similar first
RECURSIVE Ranked(_, _, _)
Ranked(c, S, sims) ==
    IF S = {} THEN <<>>
    ELSE LET best == CHOOSE i \in S :
                        \A j \in S : sims[i] > sims[j] \/ (sims[i] = sims[j] /\ i <= j)
         IN  <<Result(c[best], sims[best])>> \o Ranked(c, S \ {best}, sims)

\* Collection.Query(ctx, query, nResults, where, nil) when it returns no error:
\* the nResults most similar documents that match where.  sims is the cosine
\* similarity of each stored document to the query.
Query(c, nResults, where, sims) ==
    LET ranked == Ranked(c, {i \in DOMAIN c : Matches(c[i], where)}, sims)
    IN  SubSeq(ranked, 1, IF nResults < Len(ranked) THEN nResults ELSE Len(ranked))

\* the cosine similarities the engine reports, in tenths
Similarities == {-5, 3, 5, 10}

\* doc.Similarity >= opts.ScoreThreshold
AboveThreshold(similarity, threshold) == similarity >= threshold

\* the result's metadata with a map of one entry taken for an empty one
anyMetadataOffByOne(m) ==
    IF MapLen(m) > 1
    THEN MakeMap([k \in DOMAIN m.kv |-> AnyString(m.kv[k])])
    ELSE NilMap

\* the conversion of a result's metadata to map[string]any
anyMetadata(m) ==
    IF MapLen(m) > 0
    THEN MakeMap([k \in DOMAIN m.kv |-> AnyString(m.kv[k])])
    ELSE NilMap

\* the loop over the engine's results that filters by threshold, from res on
RECURSIVE FilterByThreshold(_, _, _)
FilterByThreshold(docs, threshold, res) ==
    IF docs = <<>> THEN res
    ELSE LET doc == Head(docs)
         IN  FilterByThreshold(
                 Tail(docs), threshold,
                 IF AboveThreshold(doc.Similarity, threshold)
                 THEN AppendSlice(res, SchemaDocument(doc.Content, anyMetadata(doc.Metadata),
                                                      doc.Similarity))
                 ELSE res)

SimilaritySearch(query, numDocuments, options, queryFails) ==
    LET opts == getOptions(Options(store.defaultCollectionName), options)
        verr == validateOptions(opts)
        where == IF opts.Filters.type # "nil" THEN opts.Filters.m ELSE NilMap
        name == CollectionName(store, opts)
        get == Call("GetCollection", name, FALSE, NoDocument, TRUE)
        query_ == Call("Query", name, FALSE, NoDocument, ~queryFails)
        Returns(err, res, found, calls) ==
            ret' = [Return("SimilaritySearch", <<>>, options, <<>>, query, numDocuments,
                           err, NilSlice, res, calls) EXCEPT !.found = found]
    IN  /\ ~store.nil
        /\ UNCHANGED <<store, db, nextID, added>>
        /\ IF verr # NoError
           THEN Returns(Wrap("invalid options", verr), NilSlice, <<>>, <<>>)
           ELSE IF ~HasCollection(db, name)
           THEN Returns("namespace doesn't exist - create it by adding documents to it first",
                        NilSlice, <<>>, <<get>>)
           ELSE IF queryFails
           THEN Returns(Wrap("couldn't query collection", CollaboratorError), NilSlice,
                        <<>>, <<get, query_>>)
           ELSE \E sims \in [DOMAIN db.collections[name] -> Similarities] :
                    LET docs == Query(db.collections[name], numDocuments, where, sims)
                    IN  Returns(NoError,
                                FilterByThreshold(docs, opts.ScoreThreshold, NilSlice),
                                docs, <<get, query_>>)

----------------------------------------------------------------------------
(* The calls explored *)

\* the sequences over S of length at most n
SeqsUpTo(S, n) == UNION {[1..k -> S] : k \in 0..n}

EmptyAnyMap == [k \in {} |-> AnyString("")]

\* documents: string metadata, no metadata, an empty metadata map, and metadata
\* with a value that is not a string beside one that is
Tokyo == SchemaDocument("Tokyo", MakeMap("area" :> AnyString("622")), 0)
Kyoto == SchemaDocument("Kyoto", NilMap, 0)
Lima == SchemaDocument("Lima", MakeMap(EmptyAnyMap), 0)
Oslo == SchemaDocument("Oslo",
            MakeMap(("area" :> AnyInt("454")) @@ ("population" :> AnyString("0.7"))), 0)

\* the documents AddDocuments accepts, and documents of both kinds
StringDocuments == {Tokyo, Lima}
Documents == {Tokyo, Kyoto, Oslo}

\* the faults a call of AddDocuments on docs can meet
Faults(docs) ==
    {NoFault, Fault("GetOrCreateCollection", 0), Fault("EmbedDocuments", 0)}
        \cup {Fault("AddDocument", i) : i \in 1..Len(docs)}

\* the per-call option lists of a caller who names a namespace or a threshold
AddOptionLists == {<<>>, <<WithNameSpace("cities")>>}
SearchOptionLists ==
    AddOptionLists
        \cup {<<WithScoreThreshold(5)>>, <<WithNameSpace("cities"), WithScoreThreshold(5)>>}

\* per-call options: every kind, with values validation accepts and refuses
AllCallOptions ==
    {WithNameSpace("cities"), WithNameSpace("archive"), WithNameSpace(""),
     WithScoreThreshold(5), WithScoreThreshold(11), WithScoreThreshold(-1),
     WithFilters(StringMapFilters("area" :> "622")),
     WithFilters(AnyMapFilters("area" :> "622")),
     WithEmbedderOverride, WithDeduplicater}

\* construction options
ClientOptions ==
    {WithEmbedder("embedder"), WithEmbedder("nil"), WithPersistence("", FALSE),
     WithPersistence("./db", TRUE), WithDefaultNamespace("langchaingo")}

Queries == {"Which of these cities are located in Japan?"}

----------------------------------------------------------------------------
(* Specifications *)

\* before New
InitNew ==
    /\ store = NilStore
    /\ db = NoDB
    /\ nextID = 1
    /\ added = NoneAdded
    /\ ret = NoCall

NextNew ==
    \E opts \in SeqsUpTo(ClientOptions, MaxClientOptions), openFails \in BOOLEAN :
        NewStore(opts, openFails)

\* construction: New on every list of construction options
SpecNew == InitNew /\ [][NextNew]_vars

\* after a New that returned a store, with and without a default namespace
Init ==
    \E opts \in {<<WithEmbedder("embedder")>>,
                 <<WithEmbedder("embedder"), WithDefaultNamespace("langchaingo")>>} :
        LET r == New(opts, FALSE)
        IN  /\ store = r.s
            /\ db = r.db
            /\ nextID = 1
            /\ added = NoneAdded
            /\ ret = Return("New", opts, <<>>, <<>>, "", 0, r.err, NilSlice, NilSlice, r.calls)

NextAdd ==
    \E docs \in SeqsUpTo(Documents, MaxBatch), options \in AddOptionLists :
        \E fault \in Faults(docs) : AddDocuments(docs, options, fault)

\* additions: batches of documents of every kind, under every fault, into the
\* default namespace
SpecAdd == Init /\ [][NextAdd]_vars

\* A search changes nothing, so every call that can follow it can be made in
\* its place: the exploration does not go on from a search.
AddStep ==
    /\ ret.op # "SimilaritySearch"
    /\ \E docs \in SeqsUpTo(StringDocuments, MaxBatch), options \in AddOptionLists :
          \E fault \in Faults(docs) : AddDocuments(docs, options, fault)

SearchStep ==
    /\ ret.op # "SimilaritySearch"
    /\ \E query \in Queries, numDocuments \in 1..MaxNumDocuments,
          options \in SearchOptionLists, queryFails \in BOOLEAN :
          SimilaritySearch(query, numDocuments, options, queryFails)

Next == AddStep \/ SearchStep

\* additions and searches in two namespaces
Spec == Init /\ [][Next]_vars

\* What a call does with its options depends on the calls before it only
\* through the store and the DB: the exploration goes on from calls without
\* per-call options, and ends with one call under any list of options.
AddStepOptions ==
    /\ ret.options = <<>>
    /\ \E options \in SeqsUpTo(AllCallOptions, MaxOptions) :
          \E fault \in Faults(<<Tokyo>>) : AddDocuments(<<Tokyo>>, options, fault)

SearchStepOptions ==
    /\ ret.options = <<>>
    /\ \E query \in Queries, options \in SeqsUpTo(AllCallOptions, MaxOptions),
          queryFails \in BOOLEAN :
          SimilaritySearch(query, 1, options, queryFails)

NextOptions == AddStepOptions \/ SearchStepOptions

\* per-call options of every kind, on calls that add or ask for one document
SpecOptions == Init /\ [][NextOptions]_vars

----------------------------------------------------------------------------
(* What the properties speak of *)

IsAdd == ret.op = "AddDocuments"
IsSearch == ret.op = "SimilaritySearch"

\* the place of the last option of a kind in a list; 0 when there is none
LastIndex(options, kind) ==
    LET S == {i \in 1..Len(options) : options[i].opt = kind}
    IN  IF S = {} THEN 0 ELSE CHOOSE i \in S : \A j \in S : j <= i

\* the resolved options of the last call, field by field: the last per-call
\* option that sets the field, the default otherwise
ResolvedNameSpace ==
    LET i == LastIndex(ret.options, "WithNameSpace")
    IN  IF i = 0 THEN store.defaultCollectionName ELSE ret.options[i].ns
ResolvedThreshold ==
    LET i == LastIndex(ret.options, "WithScoreThreshold")
    IN  IF i = 0 THEN 0 ELSE ret.options[i].t
ResolvedFilters ==
    LET i == LastIndex(ret.options, "WithFilters")
    IN  IF i = 0 THEN NilFilters ELSE ret.options[i].f

\* the resolved options of the last call violate validation
OptionsInvalid ==
    \/ ResolvedThreshold < 0
    \/ ResolvedThreshold > MaxScoreThreshold
    \/ ResolvedNameSpace = ""
    \/ LastIndex(ret.options, "WithDeduplicater") # 0
    \/ LastIndex(ret.options, "WithEmbedder") # 0
    \/ ResolvedFilters.type \notin {"nil", "map[string]string"}

ValidationErrors ==
    {Wrap("invalid options", m) :
        m \in {"unsupported options", "namespace is empty",
               "score threshold must be between 0 and 1",
               "filters must be of type map[string]string"}}

MetadataError == "only string values are supported in the metadata map"
NamespaceError == "namespace doesn't exist - create it by adding documents to it first"
ConfigurationError == "embedder is required"

\* the calls of Collection.AddDocument the last call made, in order
AddCalls == SelectSeq(ret.calls, LAMBDA c : c.fn = "AddDocument")

\* a metadata map has a value that is not a string
HasNonString(md) == \E k \in DOMAIN md.kv : md.kv[k].type # "string"

\* the place in docs of the first document with a non-string metadata value;
\* 0 when there is none
FirstNonString(docs) ==
    LET S == {i \in 1..Len(docs) : HasNonString(docs[i].Metadata)}
    IN  IF S = {} THEN 0 ELSE CHOOSE i \in S : \A j \in S : i <= j

\* a metadata map reported by a search has the keys and the string values of
\* the map passed in
SameMetadata(out, in) ==
    /\ DOMAIN out.kv = DOMAIN in.kv
    /\ \A k \in DOMAIN in.kv :
          /\ in.kv[k].type = "string"
          /\ out.kv[k].type = "string"
          /\ out.kv[k].v = in.kv[k].v

----------------------------------------------------------------------------
(* Properties *)

\* C1: an AddDocuments that succeeds returns one ID per input document; the
\* i-th ID is the ID under which the i-th document was submitted to the
\* collection; the IDs are pairwise distinct.
C1_OneIDPerDocument ==
    (IsAdd /\ ret.err = NoError) =>
        /\ ~ret.ids.nil
        /\ Len(ret.ids.s) = Len(ret.docs)
        /\ Len(AddCalls) = Len(ret.docs)
        /\ \A i \in 1..Len(ret.docs) :
              /\ AddCalls[i].doc.ID = ret.ids.s[i]
              /\ AddCalls[i].doc.Content = ret.docs[i].PageContent
        /\ \A i, j \in 1..Len(ret.ids.s) : i # j => ret.ids.s[i] # ret.ids.s[j]

\* a batch of two documents was added and two IDs came back
C1_Witness == IsAdd /\ ret.err = NoError /\ Len(ret.docs) = 2 /\ Len(ret.ids.s) = 2

\* C2: SimilaritySearch never returns a document whose score is below the
\* resolved threshold, and with no threshold option set drops no result of the
\* engine because of its score.
C2_ThresholdFilter ==
    (IsSearch /\ ret.err = NoError) =>
        /\ \A i \in 1..Len(ret.res.s) : ret.res.s[i].Score >= ResolvedThreshold
        /\ LastIndex(ret.options, "WithScoreThreshold") = 0
              => Len(ret.res.s) = Len(ret.found)

\* C3: a SimilaritySearch with valid options whose resolved namespace never
\* had a document added to it fails with the namespace-not-found error.
C3_UnpopulatedNamespace ==
    (/\ IsSearch
     /\ ~OptionsInvalid
     /\ ~\E id \in DOMAIN added : added[id].NameSpace = ResolvedNameSpace)
        => ret.err = NamespaceError

C5_ValidationFirst ==
    [][((IsAdd' \/ IsSearch') /\ OptionsInvalid') =>
          /\ ret'.err \in ValidationErrors
          /\ ret'.calls = <<>>
          /\ ret'.ids.nil /\ ret'.res.nil
          /\ db' = db
          /\ nextID' = nextID
          /\ added' = added]_vars

\* a search with a threshold above 1 was refused on a store that holds a document
C5_Witness ==
    /\ IsSearch
    /\ ResolvedThreshold > MaxScoreThreshold
    /\ ret.err \in ValidationErrors
    /\ \E n \in DOMAIN db.collections : DOMAIN db.collections[n] # {}

\* C6: with persistence enabled by WithPersistence with an empty path, New
\* opens the persistent DB at "./langchaingo"; the path handed to the engine is
\* never empty.
C6_DefaultPersistPath ==
    ret.op = "New" =>
        LET i == LastIndex(ret.clientOptions, "WithPersistence")
        IN  /\ \A c \in 1..Len(ret.calls) :
                  ret.calls[c].fn = "NewPersistentDB" => ret.calls[c].name # ""
            /\ (i # 0 /\ ret.clientOptions[i].path = "" /\ ret.err = NoError) =>
                  /\ db.created = "NewPersistentDB"
                  /\ db.path = defaultPersistPath

\* no embedder is set once the construction options are applied in order
NoEmbedderSet ==
    LET i == LastIndex(ret.clientOptions, "WithEmbedder")
    IN  i = 0 \/ ret.clientOptions[i].embedder = "nil"

\* C7: New fails with the configuration error exactly when no embedder is set
\* after all options are applied in order; it then returns no store and creates
\* or opens no DB.
C7_EmbedderRequired ==
    ret.op = "New" =>
        /\ ret.err = ConfigurationError <=> NoEmbedderSet
        /\ NoEmbedderSet => (store.nil /\ db = NoDB /\ ret.calls = <<>>)

\* an embedder was set, persistence asked for, and a last WithEmbedder(nil)
\* made New fail
C7_Witness ==
    /\ ret.op = "New"
    /\ ret.err = ConfigurationError
    /\ LastIndex(ret.clientOptions, "WithEmbedder") = 3
    /\ ret.clientOptions[1] = WithEmbedder("embedder")
    /\ ret.clientOptions[2].opt = "WithPersistence"

\* C8: the namespace a call works on is the one of its last per-call namespace
\* option, and the store's default when it has none: every collection the call
\* asks the engine for has that name, and the documents it adds are in it.
C8_NamespaceResolution ==
    (IsAdd \/ IsSearch) =>
        /\ ~OptionsInvalid => ret.calls # <<>>
        /\ \A i \in 1..Len(ret.calls) :
              ret.calls[i].fn \in {"GetOrCreateCollection", "GetCollection", "Query"}
                  => ret.calls[i].name = ResolvedNameSpace
        /\ \A i \in 1..Len(AddCalls) :
              AddCalls[i].ok =>
                  /\ ResolvedNameSpace \in DOMAIN db.collections
                  /\ AddCalls[i].doc.ID \in DOMAIN db.collections[ResolvedNameSpace]

\* a document was added under the second of two different namespace options,
\* on a store whose default namespace is a third
C8_Witness ==
    /\ IsAdd
    /\ ret.err = NoError
    /\ ret.options = <<WithNameSpace("archive"), WithNameSpace("cities")>>
    /\ store.defaultCollectionName = "langchaingo"
    /\ DOMAIN db.collections["cities"] # {}

\* C9: the metadata of every document a SimilaritySearch returns has the keys
\* and the string values of the metadata the document was added with; a
\* document added with empty or no metadata comes back with no entries.
C9_MetadataRoundTrip ==
    (IsSearch /\ ret.err = NoError) =>
        \A i \in 1..Len(ret.res.s) :
            \E j \in 1..Len(ret.found) :
                /\ ret.found[j].Content = ret.res.s[i].PageContent
                /\ ret.found[j].Similarity = ret.res.s[i].Score
                /\ ret.found[j].ID \in DOMAIN added
                /\ added[ret.found[j].ID].doc.PageContent = ret.res.s[i].PageContent
                /\ SameMetadata(ret.res.s[i].Metadata, added[ret.found[j].ID].doc.Metadata)

\* a search returned a document added with a metadata entry and one added with
\* an empty metadata map
C9_Witness ==
    /\ IsSearch
    /\ ret.err = NoError
    /\ Len(ret.res.s) = 2
    /\ \E i, j \in 1..2 :
          /\ MapLen(ret.res.s[i].Metadata) = 1
          /\ ret.res.s[j].PageContent = "Lima"
          /\ MapLen(ret.res.s[j].Metadata) = 0

\* C10: across calls, a collection once created stays and keeps its documents;
\* a call changes or creates no collection but the one of the resolved
\* namespace of an AddDocuments; an AddDocuments that gets past
\* GetOrCreateCollection leaves a collection for its namespace; a
\* SimilaritySearch changes nothing and returns only documents added to its
\* resolved namespace.
C10_OneCollectionPerNamespace ==
    [][/\ \A n \in DOMAIN db.collections :
             /\ n \in DOMAIN db'.collections
             /\ \A id \in DOMAIN db.collections[n] :
                   /\ id \in DOMAIN db'.collections[n]
                   /\ db'.collections[n][id] = db.collections[n][id]
       /\ \A n \in DOMAIN db'.collections :
             (~IsAdd' \/ n # ResolvedNameSpace') =>
                 /\ n \in DOMAIN db.collections
                 /\ db'.collections[n] = db.collections[n]
       /\ (IsAdd' /\ Len(ret'.calls) > 1) => ResolvedNameSpace' \in DOMAIN db'.collections
       /\ IsSearch' =>
             /\ db' = db
             /\ \A i \in 1..Len(ret'.res.s) :
                   \E id \in DOMAIN added' :
                       /\ added'[id].NameSpace = ResolvedNameSpace'
                       /\ added'[id].doc.PageContent = ret'.res.s[i].PageContent
                       /\ id \in DOMAIN db'.collections[ResolvedNameSpace']]_vars

\* two namespaces hold a document each, and a search returned one
C10_Witness ==
    /\ IsSearch
    /\ Len(ret.res.s) = 1
    /\ Cardinality(DOMAIN db.collections) = 2
    /\ \A n \in DOMAIN db.collections : Cardinality(DOMAIN db.collections[n]) = 1

====
